---- MODULE Spec2Model ----
(***************************************************************************)
(* Deployment and cache-purge scripts of vibesdk-production.               *)
(*                                                                         *)
(* Five entry points are modelled as one sequential state machine each:    *)
(*   simple-deploy     scripts/simple-deploy.ts                            *)
(*   cloudflare-deploy scripts/cloudflare-deploy.sh                        *)
(*   minimal-deploy    the minimal build-and-deploy shell script           *)
(*   purge-cache       the cache purge utility (scripts/purge-cache.ts)    *)
(*   git-push          scripts/git-push.sh                                 *)
(* The two deploy shell scripts run the purge utility as a child process   *)
(* with the argument "all"; the child has its own copy of the environment. *)
(*                                                                         *)
(* Text is a sequence of tokens: the characters the code inspects          *)
(* (whitespace, '#', '=', the two quotes) are tokens of their own, and     *)
(* every other run of characters is one opaque word.                       *)
(***************************************************************************)
EXTENDS Integers, Sequences, FiniteSets, TLC

VARIABLES
    script,        \* the entry point that was started
    pc,            \* position of the entry point
    env,           \* its process environment: key |-> value, keys present only
    fileState,     \* .prod.vars: "missing", "unreadable" or "ok"
    fileLines,     \* the lines of .prod.vars
    argv,          \* process.argv.slice(2) of the purge utility
    ppc,           \* position of the purge utility's process
    penv,          \* process.env of the purge utility
    purgeExit,     \* exit status of the purge utility, Running until it ends
    httpLog,       \* the POST requests issued, in order
    response,      \* what the last fetch produced
    out,           \* the messages written to the console, in order
    exitCode,      \* exit status of the entry point, Running until it ends
    cleanup,       \* outcome of cleanWranglerCache
    buildCalls,    \* number of invocations of `npm run build`
    buildStatus,   \* its exit status, Running before it ends
    deployCalls,   \* number of invocations of `npx wrangler deploy`
    deployStatus   \* its exit status, Running before it ends

vars == <<script, pc, env, fileState, fileLines, argv, ppc, penv, purgeExit,
          httpLog, response, out, exitCode, cleanup, buildCalls, buildStatus,
          deployCalls, deployStatus>>

(***************************************************************************)
(* Bounds of the model.                                                    *)
(***************************************************************************)
MaxLines == 2
MaxUrls == 2

\* An exit status is <<>> while the process runs (or the command was not run)
\* and <<code>> once it has ended.
Running == <<>>
Exited(code) == <<code>>

(***************************************************************************)
(* Tokens.                                                                 *)
(***************************************************************************)
SP == " "
HASH == "#"
EQ == "="
DQ == "\""
SQ == "'"
Quotes == {DQ, SQ}
Specials == {SP, HASH, EQ, DQ, SQ}

K_ENVIRONMENT == <<"ENVIRONMENT">>
K_NODE_ENV == <<"NODE_ENV">>
K_CF_TOKEN == <<"CLOUDFLARE_API_TOKEN">>
K_GH_TOKEN == <<"GITHUB_ACCESS_TOKEN">>

Range(s) == {s[i] : i \in 1..Len(s)}

\* Sequences over S of length at most n.
SeqUpTo(S, n) == UNION {[1..k -> S] : k \in 0..n}

(***************************************************************************)
(* String helpers of the TypeScript loader.                                *)
(***************************************************************************)
RECURSIVE TrimLeft(_)
TrimLeft(s) == IF s # <<>> /\ Head(s) = SP THEN TrimLeft(Tail(s)) ELSE s

RECURSIVE TrimRight(_)
TrimRight(s) ==
    IF s # <<>> /\ s[Len(s)] = SP THEN TrimRight(SubSeq(s, 1, Len(s) - 1)) ELSE s

\* String.prototype.trim
Trim(s) == TrimRight(TrimLeft(s))

\* Index of the first occurrence of token c in s, Len(s) + 1 when there is none.
RECURSIVE IndexOf(_, _)
IndexOf(s, c) ==
    IF s = <<>> \/ Head(s) = c THEN 1 ELSE 1 + IndexOf(Tail(s), c)

\* s.split(c)[0]
BeforeFirst(s, c) == SubSeq(s, 1, IndexOf(s, c) - 1)

\* s.split(c).slice(1).join(c)
AfterFirst(s, c) == SubSeq(s, IndexOf(s, c) + 1, Len(s))

\* value.replace(/^["'](.*)["']$/, '$1')
StripQuotes(v) ==
    IF Len(v) >= 2 /\ v[1] \in Quotes /\ v[Len(v)] \in Quotes
    THEN SubSeq(v, 2, Len(v) - 1)
    ELSE v

\* value.split('#')[0].trim() followed by the quote removal
ParseValue(raw) == StripQuotes(Trim(BeforeFirst(raw, HASH)))

(***************************************************************************)
(* The environment: a function whose domain is the set of keys present.    *)
(***************************************************************************)
\* !process.env[k] in TypeScript, [ -z "$k" ] in the shell: absent or empty.
Truthy(e, k) == k \in DOMAIN e /\ e[k] # <<>>

SetEnv(e, k, v) == [x \in (DOMAIN e) \cup {k} |-> IF x = k THEN v ELSE e[x]]

\* if (!process.env[key]) process.env[key] = value
SetIfUnset(e, k, v) == IF ~Truthy(e, k) THEN SetEnv(e, k, v) ELSE e

\* The body of the loop over the lines of .prod.vars.
LoadLine(e, line) ==
    LET trimmed == Trim(line) IN
    IF trimmed # <<>> /\ Head(trimmed) # HASH /\ EQ \in Range(trimmed)
    THEN SetIfUnset(e, BeforeFirst(trimmed, EQ), ParseValue(AfterFirst(trimmed, EQ)))
    ELSE e

RECURSIVE LoadLines(_, _)
LoadLines(e, lines) ==
    IF lines = <<>> THEN e ELSE LoadLines(LoadLine(e, Head(lines)), Tail(lines))

(***************************************************************************)
(* The shell loader: export $(grep -v '^#' f | grep -v '^$' | xargs).      *)
(***************************************************************************)
\* grep -v '^#' | grep -v '^$'
KeptByGrep(line) == line # <<>> /\ Head(line) # HASH

RECURSIVE SelectTokens(_, _)
SelectTokens(s, S) ==
    IF s = <<>> THEN <<>>
    ELSE IF Head(s) \in S THEN <<Head(s)>> \o SelectTokens(Tail(s), S)
    ELSE SelectTokens(Tail(s), S)

\* xargs ends with "unmatched quote" when a line leaves a quote open.
RECURSIVE QuotesBalanced(_, _)
QuotesBalanced(s, open) ==
    IF s = <<>> THEN open = ""
    ELSE IF open = "" THEN QuotesBalanced(Tail(s), IF Head(s) \in Quotes THEN Head(s) ELSE "")
    ELSE QuotesBalanced(Tail(s), IF Head(s) = open THEN "" ELSE open)

\* xargs removes the quotes; the unquoted $(...) is then split at whitespace.
RECURSIVE SplitWords(_)
SplitWords(s) ==
    LET t == TrimLeft(s) IN
    IF t = <<>> THEN <<>>
    ELSE <<BeforeFirst(t, SP)>> \o SplitWords(AfterFirst(t, SP))

ShellWords(line) == SplitWords(SelectTokens(line, (Range(line) \ Quotes)))

\* export WORD: NAME=value assigns, whatever the variable held before; a bare
\* NAME or an invalid identifier changes no value.
ExportWord(e, w) ==
    LET name == BeforeFirst(w, EQ) IN
    IF EQ \in Range(w) /\ name # <<>> /\ Range(name) \cap Specials = {}
    THEN SetEnv(e, name, AfterFirst(w, EQ))
    ELSE e

RECURSIVE ExportWords(_, _)
ExportWords(e, ws) ==
    IF ws = <<>> THEN e ELSE ExportWords(ExportWord(e, Head(ws)), Tail(ws))

RECURSIVE AllShellWords(_)
AllShellWords(lines) ==
    IF lines = <<>> THEN <<>>
    ELSE (IF KeptByGrep(Head(lines)) THEN ShellWords(Head(lines)) ELSE <<>>)
         \o AllShellWords(Tail(lines))

ShellLoad(e, state, lines) ==
    IF state = "ok"
       /\ \A i \in 1..Len(lines) : KeptByGrep(lines[i]) => QuotesBalanced(lines[i], "")
    THEN ExportWords(e, AllShellWords(lines))
    ELSE e

(***************************************************************************)
(* Inputs: the initial environment, .prod.vars and the command line.       *)
(***************************************************************************)
Scripts == {"simple-deploy", "cloudflare-deploy", "minimal-deploy", "purge-cache", "git-push"}

\* Exit statuses an external command is drawn from.
CmdExits == {0, 1, 127}

FileLineSet ==
    { <<"ENVIRONMENT", EQ, "prod">>,
      <<"ENVIRONMENT", EQ, "development", SP>>,
      <<"CLOUDFLARE_API_TOKEN", EQ, DQ, "filetok", DQ, SP, HASH, SP, "comment">>,
      <<"GITHUB_ACCESS_TOKEN", EQ, SQ, "ghfile", SQ>>,
      <<HASH, SP, "ENVIRONMENT", EQ, "prod">>,
      <<>> }

\* A choice of <<>> leaves the key out of the environment, <<v>> sets it to v.
MkEnv(a, b, c, d) ==
    LET pick == [k \in {K_ENVIRONMENT, K_NODE_ENV, K_CF_TOKEN, K_GH_TOKEN} |->
                    IF k = K_ENVIRONMENT THEN a
                    ELSE IF k = K_NODE_ENV THEN b
                    ELSE IF k = K_CF_TOKEN THEN c ELSE d]
    IN [k \in {x \in DOMAIN pick : pick[x] # <<>>} |-> pick[k][1]]

EnvironmentChoices == {<<>>, << <<>> >>, << <<"prod">> >>, << <<"development">> >>}
NodeEnvChoices == {<<>>, << <<"production">> >>}
CfTokenChoices == {<<>>, << <<>> >>, << <<"envtok">> >>}
GhTokenChoices == {<<>>, << <<"ghenv">> >>}

InitEnvs(s) ==
    IF s = "simple-deploy"
        THEN {MkEnv(<<>>, <<>>, c, <<>>) : c \in CfTokenChoices}
    ELSE IF s = "git-push"
        THEN {MkEnv(<<>>, <<>>, c, d) : c \in {<<>>, << <<"envtok">> >>}, d \in GhTokenChoices}
    ELSE {MkEnv(a, b, c, <<>>) :
             a \in EnvironmentChoices, b \in NodeEnvChoices, c \in CfTokenChoices}

\* <<state, lines>> of .prod.vars; simple-deploy never looks at the file.
InitFiles(s) ==
    IF s = "simple-deploy" THEN {<<"missing", <<>> >>}
    ELSE {<<"missing", <<>> >>, <<"unreadable", <<>> >>}
         \cup {<<"ok", ls>> : ls \in SeqUpTo(FileLineSet, MaxLines)}

UrlSet == {"https://a.example/", "https://b.example/x"}

\* process.argv.slice(2); the deploy scripts always pass "all".
InitArgv(s) ==
    IF s = "purge-cache"
        THEN {<<>>, <<"all">>, <<"common">>, <<"bogus">>}
             \cup {<<"urls">> \o us : us \in SeqUpTo(UrlSet, MaxUrls)}
    ELSE IF s \in {"cloudflare-deploy", "minimal-deploy"} THEN {<<"all">>}
    ELSE {<<>>}

NoResponse ==
    [net |-> FALSE, status |-> 0, body |-> "none", success |-> "missing",
     error |-> "none", hasResult |-> FALSE]

\* What one fetch can produce: a rejected fetch, or a status with a body that
\* is not JSON, is the JSON null, or is an object.
Responses ==
    {[NoResponse EXCEPT !.net = TRUE]}
    \cup {[NoResponse EXCEPT !.status = st, !.body = b] :
             st \in {200, 403, 500}, b \in {"invalid", "null"}}
    \cup {[net |-> FALSE, status |-> st, body |-> "object", success |-> su,
           error |-> er, hasResult |-> hr] :
             st \in {200, 403, 500}, su \in {"true", "false", "missing"},
             er \in {"none", "auth", "other"}, hr \in BOOLEAN}

Init ==
    /\ script \in Scripts
    /\ env \in InitEnvs(script)
    /\ \E f \in InitFiles(script) : fileState = f[1] /\ fileLines = f[2]
    /\ argv \in InitArgv(script)
    /\ pc = CASE script = "simple-deploy" -> "validate"
              [] script = "cloudflare-deploy" -> "build"
              [] script = "minimal-deploy" -> "load"
              [] script = "git-push" -> "load"
              [] OTHER -> "purge"
    /\ ppc = IF script = "purge-cache" THEN "load" ELSE "idle"
    /\ penv = IF script = "purge-cache" THEN env ELSE <<>>
    /\ purgeExit = Running
    /\ httpLog = <<>>
    /\ response = NoResponse
    /\ out = <<>>
    /\ exitCode = Running
    /\ cleanup = "notrun"
    /\ buildCalls = 0
    /\ buildStatus = Running
    /\ deployCalls = 0
    /\ deployStatus = Running

topVars == <<script, pc, env, exitCode>>
fileVars == <<fileState, fileLines, argv>>
purgeVars == <<ppc, penv, purgeExit, httpLog, response>>
buildVars == <<cleanup, buildCalls, buildStatus, deployCalls, deployStatus>>

Log(msgs) == out' = out \o msgs

(***************************************************************************)
(* The cache purge utility.                                                *)
(***************************************************************************)
\* The end of the utility's process; run directly, it is the entry point.
PurgeExits(code) ==
    /\ ppc' = "exited"
    /\ purgeExit' = Exited(code)
    /\ IF script = "purge-cache"
       THEN pc' = "done" /\ exitCode' = Exited(code)
       ELSE UNCHANGED <<pc, exitCode>>

\* The loader without its existsSync test: reading a missing file throws and
\* the catch block warns.
LoadEnvironmentVariables_NoExistsTest ==
    /\ ppc = "load"
    /\ ppc' = "validate"
    /\ IF fileState = "ok"
       THEN /\ penv' = LoadLines(penv, fileLines)
            /\ Log(<<"loaded .prod.vars">>)
       ELSE /\ UNCHANGED penv
            /\ Log(<<"warn: failed to load .prod.vars">>)
    /\ UNCHANGED <<topVars, fileVars, purgeExit, httpLog, response, buildVars>>

\* CloudflareCachePurger.loadEnvironmentVariables
LoadEnvironmentVariables ==
    /\ ppc = "load"
    /\ ppc' = "validate"
    /\ CASE fileState = "missing" -> UNCHANGED <<penv, out>>
         [] fileState = "unreadable" ->
                /\ UNCHANGED penv
                /\ Log(<<"warn: failed to load .prod.vars">>)
         [] OTHER ->
                /\ penv' = LoadLines(penv, fileLines)
                /\ Log(<<"loaded .prod.vars">>)
    /\ UNCHANGED <<topVars, fileVars, purgeExit, httpLog, response, buildVars>>

\* process.env.ENVIRONMENT || process.env.NODE_ENV || 'development'
EffectiveEnvironment(e) ==
    IF Truthy(e, K_ENVIRONMENT) THEN e[K_ENVIRONMENT]
    ELSE IF Truthy(e, K_NODE_ENV) THEN e[K_NODE_ENV]
    ELSE <<"development">>

IsProduction(e) == EffectiveEnvironment(e) \in {<<"prod">>, <<"production">>}

\* The filter with its test dropped: nothing is ever reported missing.
MissingVars_NoneMissing(e, required) == <<>>

\* required.filter(varName => !process.env[varName])
MissingVars(e, required) ==
    LET absent(k) == ~Truthy(e, k) IN SelectSeq(required, absent)

RequiredVars == <<K_CF_TOKEN>>

\* CloudflareCachePurger.validateEnvironment
PurgerValidateEnvironment ==
    /\ ppc = "validate"
    /\ IF ~IsProduction(penv)
       THEN /\ Log(<<"purge skipped: not in production">>)
            /\ PurgeExits(0)
       ELSE IF MissingVars(penv, RequiredVars) # <<>>
       THEN /\ Log(<<"purge skipped: missing variables">>)
            /\ PurgeExits(0)
       ELSE /\ Log(<<"production environment detected">>)
            /\ ppc' = "main"
            /\ UNCHANGED <<purgeExit, pc, exitCode>>
    /\ UNCHANGED <<script, env, fileVars, penv, httpLog, response, buildVars>>

\* response.ok
ResponseOk(r) == r.status \in 200..299

\* fetch rejects, response.json() rejects, or a property of null is read.
ThrowsBeforeCheck(r) == r.net \/ r.body \in {"invalid", "null"}

\* !response.ok || !result.success
CheckFails(r) == ~ResponseOk(r) \/ r.success # "true"

\* The catch block of purgeAllCache.
AllCacheCatch(auth) ==
    <<"purge failed">>
    \o (IF auth THEN <<"hint: authentication">> ELSE <<"hint: deployment succeeded, purge failed">>)
    \o <<"hard refresh note">>

\* The console output of purgeAllCache for one response.
AllCacheOutput(r) ==
    <<"purging cache">>
    \o (IF ThrowsBeforeCheck(r) THEN AllCacheCatch(FALSE)
        ELSE IF CheckFails(r)
            THEN <<"purge api response">> \o AllCacheCatch(r.error = "auth")
        ELSE <<"purge succeeded">>
             \o (IF r.hasResult THEN <<"purge id">> ELSE AllCacheCatch(FALSE)))

\* The console output of purgeSpecificUrls for one response.
SpecificUrlsOutput(r) ==
    <<"purging urls">>
    \o (IF ThrowsBeforeCheck(r) THEN <<"purge failed">>
        ELSE IF CheckFails(r) THEN <<"purge api response", "purge failed">>
        ELSE <<"purge succeeded">>
             \o (IF r.hasResult THEN <<"purge id", "urls purged">> ELSE <<"purge failed">>))

\* argv[2] || 'all'
PurgeType == IF argv # <<>> THEN argv[1] ELSE "all"

\* One POST to the purge endpoint with the given JSON body, awaited.
Fetch(body, r) ==
    /\ httpLog' = Append(httpLog, body)
    /\ response' = r

\* CloudflareCachePurger.purgeAllCache, from main's case 'all'
PurgeAllCache ==
    /\ ppc = "main"
    /\ PurgeType = "all"
    /\ \E r \in Responses :
          /\ Fetch([purge_everything |-> TRUE, files |-> <<>>], r)
          /\ Log(AllCacheOutput(r))
    /\ PurgeExits(0)
    /\ UNCHANGED <<script, env, fileVars, penv, buildVars>>

\* CloudflareCachePurger.purgeSpecificUrls
PurgeSpecificUrls(urls) ==
    /\ \E r \in Responses :
          /\ Fetch([purge_everything |-> FALSE, files |-> urls], r)
          /\ Log(SpecificUrlsOutput(r))
    /\ PurgeExits(0)
    /\ UNCHANGED <<script, env, fileVars, penv, buildVars>>

CommonUrls ==
    << "https://sportbuilt.me/",
       "https://sportbuilt.me/index.html",
       "https://sportbuilt.me/api/auth/providers",
       "https://sportbuilt.me/assets/index.css",
       "https://sportbuilt.me/assets/index.js",
       "https://sportbuilt.me/favicon.ico",
       "https://sportbuilt.me/logo.svg" >>

\* CloudflareCachePurger.purgeCommonAssets, from main's case 'common'
PurgeCommonAssets ==
    /\ ppc = "main"
    /\ PurgeType = "common"
    /\ PurgeSpecificUrls(CommonUrls)

\* process.argv.slice(2) in place of slice(3): the mode word is taken for a URL.
UrlArgs_FromModeWord == argv

\* process.argv.slice(3)
UrlArgs == Tail(argv)

\* main's case 'urls'
PurgeUrls ==
    /\ ppc = "main"
    /\ PurgeType = "urls"
    /\ IF Len(UrlArgs) = 0
       THEN /\ Log(<<"no urls provided", "usage">>)
            /\ PurgeExits(1)
            /\ UNCHANGED <<script, env, fileVars, penv, httpLog, response, buildVars>>
       ELSE PurgeSpecificUrls(UrlArgs)

\* main's default case
PurgeInvalidType ==
    /\ ppc = "main"
    /\ PurgeType \notin {"all", "common", "urls"}
    /\ Log(<<"invalid purge type">>)
    /\ PurgeExits(1)
    /\ UNCHANGED <<script, env, fileVars, penv, httpLog, response, buildVars>>

(***************************************************************************)
(* scripts/simple-deploy.ts                                                *)
(***************************************************************************)
RequiredBuildVars == <<K_CF_TOKEN>>

\* new SimpleDeploymentManager(): the constructor runs validateEnvironment
\* outside deploy()'s try block and outside the promise's catch handler, so
\* its Error ends the process as an uncaught exception, with status 1.
ValidateEnvironment ==
    /\ script = "simple-deploy"
    /\ pc = "validate"
    /\ IF MissingVars(env, RequiredBuildVars) # <<>>
       THEN /\ Log(<<"uncaught: missing required build variables">>)
            /\ pc' = "done"
            /\ exitCode' = Exited(1)
       ELSE /\ Log(<<"build variables validation passed">>)
            /\ pc' = "clean"
            /\ UNCHANGED exitCode
    /\ UNCHANGED <<script, env, fileVars, purgeVars, buildVars>>

\* The console output of cleanWranglerCache; find runs only after rm succeeded.
CleanOutput(rmOk, findOk) ==
    <<"cleaning cache">>
    \o (IF ~rmOk THEN <<"warn: cache cleanup failed", "warn: continuing">>
        ELSE <<"removed .wrangler">>
             \o (IF findOk THEN <<"removed wrangler.json files">>
                 ELSE <<"info: no cached wrangler.json files">>)
             \o <<"cache cleanup completed">>)

CleanOutcome(rmOk, findOk) ==
    IF ~rmOk THEN "rm failed" ELSE IF ~findOk THEN "find failed" ELSE "ok"

\* cleanWranglerCache without its outer try: a failing rm reaches deploy()'s
\* catch block and ends the run.
CleanWranglerCache_Rethrows ==
    /\ script = "simple-deploy"
    /\ pc = "clean"
    /\ \E rmOk \in BOOLEAN, findOk \in BOOLEAN :
          /\ cleanup' = CleanOutcome(rmOk, findOk)
          /\ IF rmOk
             THEN /\ Log(<<"deployment starting">> \o CleanOutput(rmOk, findOk))
                  /\ pc' = "build"
                  /\ UNCHANGED exitCode
             ELSE /\ Log(<<"deployment starting", "cleaning cache",
                           "deployment failed", "rm failed", "troubleshooting tips">>)
                  /\ pc' = "done"
                  /\ exitCode' = Exited(1)
    /\ UNCHANGED <<script, env, fileVars, purgeVars,
                   buildCalls, buildStatus, deployCalls, deployStatus>>

\* SimpleDeploymentManager.cleanWranglerCache, step 1 of deploy()
CleanWranglerCache ==
    /\ script = "simple-deploy"
    /\ pc = "clean"
    /\ \E rmOk \in BOOLEAN, findOk \in BOOLEAN :
          /\ Log(<<"deployment starting">> \o CleanOutput(rmOk, findOk))
          /\ cleanup' = CleanOutcome(rmOk, findOk)
    /\ pc' = "build"
    /\ UNCHANGED <<script, env, exitCode, fileVars, purgeVars,
                   buildCalls, buildStatus, deployCalls, deployStatus>>

\* The catch block of deploy().
DeployCatch(what) ==
    <<"deployment failed", what, "troubleshooting tips">>

\* SimpleDeploymentManager.buildProject, step 2 of deploy()
BuildProject ==
    /\ script = "simple-deploy"
    /\ pc = "build"
    /\ \E code \in CmdExits :
          /\ buildCalls' = buildCalls + 1
          /\ buildStatus' = Exited(code)
          /\ IF code # 0
             THEN /\ Log(<<"building project">> \o DeployCatch("failed to build project"))
                  /\ pc' = "done"
                  /\ exitCode' = Exited(1)
             ELSE /\ Log(<<"building project", "project build completed">>)
                  /\ pc' = "deploy"
                  /\ UNCHANGED exitCode
    /\ UNCHANGED <<script, env, fileVars, purgeVars, cleanup, deployCalls, deployStatus>>

\* SimpleDeploymentManager.wranglerDeploy, step 3 of deploy(), and its end
WranglerDeploy ==
    /\ script = "simple-deploy"
    /\ pc = "deploy"
    /\ \E code \in CmdExits :
          /\ deployCalls' = deployCalls + 1
          /\ deployStatus' = Exited(code)
          /\ IF code # 0
             THEN /\ Log(<<"deploying">> \o DeployCatch("failed to deploy with wrangler"))
                  /\ exitCode' = Exited(1)
             ELSE /\ Log(<<"deploying", "wrangler deployment completed",
                           "deployment finished successfully">>)
                  /\ exitCode' = Exited(0)
    /\ pc' = "done"
    /\ UNCHANGED <<script, env, fileVars, purgeVars, cleanup, buildCalls, buildStatus>>

(***************************************************************************)
(* The deploy shell scripts.                                               *)
(***************************************************************************)
\* npx tsx scripts/purge-cache.ts all: the child inherits the exported
\* environment; npx itself may fail to start it.
RunPurge(started) ==
    IF started
    THEN ppc' = "load" /\ penv' = env /\ UNCHANGED purgeExit
    ELSE ppc' = "launchfailed" /\ purgeExit' = Exited(1) /\ UNCHANGED penv

PurgeEnded == ppc \in {"exited", "launchfailed"}

\* The two echo lines after the purge command; the script then ends with the
\* status of the last echo.
AfterPurgeOutput ==
    <<"app should now be live", "Cache has been purged">>

\* if [ $? -ne 0 ]: the build's status sends the script to exit 1.
BuildHalts_OnlyStatusOne(code) == code = 1

BuildHalts(code) == code # 0

\* scripts/cloudflare-deploy.sh: npm run build and the test of $?
CfBuild ==
    /\ script = "cloudflare-deploy"
    /\ pc = "build"
    /\ \E code \in CmdExits :
          /\ buildCalls' = buildCalls + 1
          /\ buildStatus' = Exited(code)
          /\ IF BuildHalts(code)
             THEN /\ Log(<<"starting", "building project", "Build failed">>)
                  /\ pc' = "done"
                  /\ exitCode' = Exited(1)
             ELSE /\ Log(<<"starting", "building project", "Build completed">>)
                  /\ pc' = "deploy"
                  /\ UNCHANGED exitCode
    /\ UNCHANGED <<script, env, fileVars, purgeVars, cleanup, deployCalls, deployStatus>>

\* scripts/cloudflare-deploy.sh: npx wrangler deploy and the test of $?
CfDeploy ==
    /\ script = "cloudflare-deploy"
    /\ pc = "deploy"
    /\ \E code \in CmdExits, started \in BOOLEAN :
          /\ deployCalls' = deployCalls + 1
          /\ deployStatus' = Exited(code)
          /\ IF code = 0
             THEN /\ Log(<<"deploying", "Deployment completed", "purging cache">>)
                  /\ pc' = "purge"
                  /\ RunPurge(started)
                  /\ UNCHANGED exitCode
             ELSE /\ Log(<<"deploying", "Deployment failed">>)
                  /\ pc' = "done"
                  /\ exitCode' = Exited(1)
                  /\ UNCHANGED <<ppc, penv, purgeExit>>
    /\ UNCHANGED <<script, env, fileVars, httpLog, response, cleanup, buildCalls, buildStatus>>

\* The script ending with the purge command's status instead of an echo's.
CfAfterPurge_EndsWithPurgeStatus ==
    /\ script = "cloudflare-deploy"
    /\ pc = "purge"
    /\ PurgeEnded
    /\ Log(AfterPurgeOutput)
    /\ pc' = "done"
    /\ exitCode' = purgeExit
    /\ UNCHANGED <<script, env, fileVars, purgeVars, buildVars>>

\* scripts/cloudflare-deploy.sh: what follows the purge command
CfAfterPurge ==
    /\ script = "cloudflare-deploy"
    /\ pc = "purge"
    /\ PurgeEnded
    /\ Log(AfterPurgeOutput)
    /\ pc' = "done"
    /\ exitCode' = Exited(0)
    /\ UNCHANGED <<script, env, fileVars, purgeVars, buildVars>>

\* The minimal deploy script: loading .prod.vars
MinLoad ==
    /\ script = "minimal-deploy"
    /\ pc = "load"
    /\ IF fileState # "missing"
       THEN /\ Log(<<"starting", "loading .prod.vars">>)
            /\ env' = ShellLoad(env, fileState, fileLines)
            /\ pc' = "checkToken"
            /\ UNCHANGED exitCode
       ELSE /\ Log(<<"starting", ".prod.vars file not found">>)
            /\ pc' = "done"
            /\ exitCode' = Exited(1)
            /\ UNCHANGED env
    /\ UNCHANGED <<script, fileVars, purgeVars, buildVars>>

\* The minimal deploy script: [ -z "$CLOUDFLARE_API_TOKEN" ]
MinCheckToken ==
    /\ script = "minimal-deploy"
    /\ pc = "checkToken"
    /\ IF ~Truthy(env, K_CF_TOKEN)
       THEN /\ Log(<<"CLOUDFLARE_API_TOKEN not found">>)
            /\ pc' = "done"
            /\ exitCode' = Exited(1)
       ELSE /\ Log(<<"environment variables loaded">>)
            /\ pc' = "build"
            /\ UNCHANGED exitCode
    /\ UNCHANGED <<script, env, fileVars, purgeVars, buildVars>>

\* The minimal deploy script: npm run build and the test of $?
MinBuild ==
    /\ script = "minimal-deploy"
    /\ pc = "build"
    /\ \E code \in CmdExits :
          /\ buildCalls' = buildCalls + 1
          /\ buildStatus' = Exited(code)
          /\ IF BuildHalts(code)
             THEN /\ Log(<<"building project", "Build failed">>)
                  /\ pc' = "done"
                  /\ exitCode' = Exited(1)
             ELSE /\ Log(<<"building project", "Build completed">>)
                  /\ pc' = "deploy"
                  /\ UNCHANGED exitCode
    /\ UNCHANGED <<script, env, fileVars, purgeVars, cleanup, deployCalls, deployStatus>>

\* The minimal deploy script: npx wrangler deploy and the test of $?
MinDeploy ==
    /\ script = "minimal-deploy"
    /\ pc = "deploy"
    /\ \E code \in CmdExits, started \in BOOLEAN :
          /\ deployCalls' = deployCalls + 1
          /\ deployStatus' = Exited(code)
          /\ IF code = 0
             THEN /\ Log(<<"deploying", "Deployment completed", "purging cache">>)
                  /\ pc' = "purge"
                  /\ RunPurge(started)
                  /\ UNCHANGED exitCode
             ELSE /\ Log(<<"deploying", "Deployment failed">>)
                  /\ pc' = "done"
                  /\ exitCode' = Exited(1)
                  /\ UNCHANGED <<ppc, penv, purgeExit>>
    /\ UNCHANGED <<script, env, fileVars, httpLog, response, cleanup, buildCalls, buildStatus>>

\* The minimal deploy script: what follows the purge command
MinAfterPurge ==
    /\ script = "minimal-deploy"
    /\ pc = "purge"
    /\ PurgeEnded
    /\ Log(AfterPurgeOutput)
    /\ pc' = "done"
    /\ exitCode' = Exited(0)
    /\ UNCHANGED <<script, env, fileVars, purgeVars, buildVars>>

(***************************************************************************)
(* scripts/git-push.sh                                                     *)
(***************************************************************************)
\* Loading .prod.vars when it is there.
GitLoad ==
    /\ script = "git-push"
    /\ pc = "load"
    /\ env' = IF fileState # "missing" THEN ShellLoad(env, fileState, fileLines) ELSE env
    /\ pc' = "checkToken"
    /\ UNCHANGED <<script, exitCode, out, fileVars, purgeVars, buildVars>>

\* [ -z "$GITHUB_ACCESS_TOKEN" ]
GitCheckToken ==
    /\ script = "git-push"
    /\ pc = "checkToken"
    /\ IF ~Truthy(env, K_GH_TOKEN)
       THEN /\ Log(<<"GITHUB_ACCESS_TOKEN not found">>)
            /\ pc' = "done"
            /\ exitCode' = Exited(1)
       ELSE /\ pc' = "push"
            /\ UNCHANGED <<out, exitCode>>
    /\ UNCHANGED <<script, env, fileVars, purgeVars, buildVars>>

\* git remote set-url, add, commit and push; no status is tested, and the
\* script ends with the status of its last echo.
GitPush ==
    /\ script = "git-push"
    /\ pc = "push"
    /\ Log(<<"Successfully pushed">>)
    /\ pc' = "done"
    /\ exitCode' = Exited(0)
    /\ UNCHANGED <<script, env, fileVars, purgeVars, buildVars>>

Next ==
    \/ LoadEnvironmentVariables
    \/ PurgerValidateEnvironment
    \/ PurgeAllCache
    \/ PurgeCommonAssets
    \/ PurgeUrls
    \/ PurgeInvalidType
    \/ ValidateEnvironment
    \/ CleanWranglerCache
    \/ BuildProject
    \/ WranglerDeploy
    \/ CfBuild
    \/ CfDeploy
    \/ CfAfterPurge
    \/ MinLoad
    \/ MinCheckToken
    \/ MinBuild
    \/ MinDeploy
    \/ MinAfterPurge
    \/ GitLoad
    \/ GitCheckToken
    \/ GitPush

Spec == Init /\ [][Next]_vars

(***************************************************************************)
(* Properties.                                                             *)
(***************************************************************************)
Logged(m) == \E i \in 1..Len(out) : out[i] = m

DeployScripts == {"simple-deploy", "cloudflare-deploy", "minimal-deploy"}

Failed(status) == status # Running /\ status # Exited(0)

PurgeNeverInvoked == ppc = "idle" /\ httpLog = <<>>

\* C1: a failing step halts the pipeline. After a build that returned a
\* non-zero status the deploy command has not been and is never invoked, no
\* purge is invoked and the run has ended with status 1; after a deploy that
\* returned non-zero no purge is invoked and the run has ended with status 1.
C1_FailingStepHalts ==
    script \in DeployScripts =>
        /\ Failed(buildStatus) =>
              /\ deployCalls = 0
              /\ deployStatus = Running
              /\ PurgeNeverInvoked
              /\ pc = "done"
              /\ exitCode = Exited(1)
        /\ Failed(deployStatus) =>
              /\ PurgeNeverInvoked
              /\ pc = "done"
              /\ exitCode = Exited(1)

C1_Witness ==
    /\ script = "simple-deploy"
    /\ buildCalls = 1
    /\ buildStatus = Exited(1)
    /\ exitCode = Exited(1)

\* C2: once the deploy command has exited 0 the run never gets an exit status
\* other than 0, whatever the purge step does (HTTP 500, success false, a body
\* that does not parse, a rejected fetch, a purge command that exits non-zero).
C2_PurgeNeverChangesExit ==
    (script \in DeployScripts /\ deployStatus = Exited(0)) =>
        /\ exitCode \in {Running, Exited(0)}
        /\ pc = "done" => exitCode = Exited(0)

C2_Witness ==
    /\ script = "cloudflare-deploy"
    /\ pc = "done"
    /\ deployStatus = Exited(0)
    /\ response.status = 500
    /\ Logged("purge failed")
    /\ exitCode = Exited(0)

\* C3: when validation fails, i.e. the effective environment after loading
\* .prod.vars is neither prod nor production or CLOUDFLARE_API_TOKEN is absent
\* (or empty), the purge utility exits 0 and issues no HTTP request, for
\* every mode and argument list.
C3_ValidationFailureSkips ==
    (/\ ppc \in {"main", "exited"}
     /\ \/ EffectiveEnvironment(penv) \notin {<<"prod">>, <<"production">>}
        \/ K_CF_TOKEN \notin DOMAIN penv
        \/ penv[K_CF_TOKEN] = <<>>)
    => (ppc = "exited" /\ purgeExit = Exited(0) /\ httpLog = <<>>)

C3_Witness ==
    /\ script = "purge-cache"
    /\ ppc = "exited"
    /\ Len(argv) = 2 /\ argv[1] = "urls"
    /\ EffectiveEnvironment(penv) = <<"development">>
    /\ purgeExit = Exited(0)
    /\ httpLog = <<>>

ValidationPassed ==
    /\ EffectiveEnvironment(penv) \in {<<"prod">>, <<"production">>}
    /\ K_CF_TOKEN \in DOMAIN penv
    /\ penv[K_CF_TOKEN] # <<>>

UrlsModeOutcome ==
    IF Len(argv) = 1
    THEN purgeExit = Exited(1) /\ Logged("usage") /\ httpLog = <<>>
    ELSE httpLog = <<[purge_everything |-> FALSE, files |-> Tail(argv)]>>

\* C4 as stated: mode urls with no URL exits 1 with the usage message and no
\* POST; with n >= 1 URLs exactly one POST is issued whose files array holds
\* those n URLs in order.
C4_Original ==
    (script = "purge-cache" /\ argv # <<>> /\ argv[1] = "urls") =>
        /\ Len(httpLog) <= 1
        /\ ppc = "exited" => UrlsModeOutcome

\* C4 as amended: the same, in the runs where validation passed (production
\* environment and a non-empty CLOUDFLARE_API_TOKEN after loading .prod.vars);
\* in the other runs the utility exits 0 without a POST, as C3 states.
C4_UrlsModeAfterValidation ==
    (script = "purge-cache" /\ argv # <<>> /\ argv[1] = "urls") =>
        /\ Len(httpLog) <= 1
        /\ (ppc = "exited" /\ ValidationPassed) => UrlsModeOutcome

C4_Witness ==
    /\ script = "purge-cache"
    /\ ppc = "exited"
    /\ ValidationPassed
    /\ argv = <<"urls", "https://a.example/", "https://b.example/x">>
    /\ Len(httpLog) = 1
    /\ Len(httpLog[1].files) = 2

KeepsPresentKeys(before, after) ==
    \A k \in DOMAIN before : k \in DOMAIN after /\ after[k] = before[k]

\* C5: loading .prod.vars leaves every key that was present in the
\* environment before (a key set to the empty string included) at its value,
\* in the purge utility's loader and in the two shell loaders.
C5_LoaderKeepsPresentKeys ==
    [][ /\ (ppc = "load" /\ ppc' = "validate") => KeepsPresentKeys(penv, penv')
        /\ (pc = "load" /\ pc' # "load") => KeepsPresentKeys(env, env') ]_vars

\* C6 as stated: with .prod.vars missing, loading is a silent no-op in every
\* entry point: nothing is written, no variable changes, the run goes on to
\* validation.
C6_Original ==
    [][ fileState = "missing" =>
          /\ (ppc = "load" /\ ppc' # "load") =>
                (penv' = penv /\ out' = out /\ ppc' = "validate")
          /\ (pc = "load" /\ pc' # "load") =>
                (env' = env /\ out' = out /\ pc' = "checkToken" /\ exitCode' = Running)
      ]_vars

\* C6 as amended: with .prod.vars missing, loading is a silent no-op in the
\* purge utility and in git-push.sh (nothing written, no variable changed, the
\* run goes on to validation); the minimal deploy script instead reports that
\* the file was not found and exits 1, leaving the environment unchanged.
C6_MissingFileLoad ==
    [][ fileState = "missing" =>
          /\ (ppc = "load" /\ ppc' # "load") =>
                (penv' = penv /\ out' = out /\ ppc' = "validate")
          /\ (script = "git-push" /\ pc = "load" /\ pc' # "load") =>
                (env' = env /\ out' = out /\ pc' = "checkToken" /\ exitCode' = Running)
          /\ (script = "minimal-deploy" /\ pc = "load" /\ pc' # "load") =>
                /\ env' = env
                /\ out' = out \o <<"starting", ".prod.vars file not found">>
                /\ pc' = "done"
                /\ exitCode' = Exited(1)
      ]_vars

C6_Witness ==
    /\ script = "purge-cache"
    /\ fileState = "missing"
    /\ ppc = "validate"
    /\ penv = env
    /\ out = <<>>

\* C7: in simple-deploy no run ends with a non-zero status without having
\* printed the troubleshooting hints: after a failed build, a failed deploy
\* and a missing CLOUDFLARE_API_TOKEN alike.
C7_HintsBeforeNonZeroExit ==
    (script = "simple-deploy" /\ Failed(exitCode)) => Logged("troubleshooting tips")

\* C8: a purge request ends in exactly one outcome: it is reported as
\* succeeded exactly when the response has a 2xx status and success = true,
\* and as failed in every other case; never as both.
C8_ExactlyOneOutcome ==
    (ppc = "exited" /\ httpLog # <<>>) =>
        LET succeeded == Logged("purge succeeded")
            failed == Logged("purge failed")
        IN /\ succeeded <=> (ResponseOk(response) /\ response.success = "true")
           /\ failed <=> ~succeeded

CleanupKeepsPipeline ==
    /\ pc = "build" => (buildCalls = 0 /\ exitCode = Running)
    /\ pc \in {"deploy", "done"} => buildCalls = 1
    /\ pc = "done" =>
          exitCode = IF buildStatus = Exited(0) /\ deployStatus = Exited(0)
                     THEN Exited(0) ELSE Exited(1)

C10_PurgedMessageOnlyOnSuccess ==
    Logged("Cache has been purged") =>
        /\ httpLog # <<>>
        /\ ResponseOk(response) /\ response.success = "true"
        /\ Logged("purge succeeded")
        /\ ~Logged("purge failed")

====
